---- MODULE Spec2Model ----
(***************************************************************************)
(* Model of the DeployGate upload action (src/src/main.ts).                *)
(*                                                                         *)
(* main.ts holds two implementations of run(): the undici one (lines       *)
(* 33-184, maxRetries = 3) and the axios one (lines 244-420,               *)
(* maxRetries = 1).  `variant` selects which one a behaviour runs.         *)
(*                                                                         *)
(* run() is one async function; it is suspended only while a request is    *)
(* in flight and while the backoff timer runs, so the model has one        *)
(* action per synchronous segment between those awaits.                    *)
(***************************************************************************)
EXTENDS Integers, Sequences, FiniteSets, TLC

VARIABLES
    variant,       \* "undici" | "axios": which run() of main.ts executes
    apiTokenIn,    \* raw value of input api_token (a sequence of characters)
    ownerNameIn,   \* raw value of input owner_name
    fileKind,      \* what file_path resolves to on disk
    fileExt,       \* path.extname(filePath)
    pc,            \* position of run(): "start" | "request" | "awaiting" | "sleep" | "done"
    ownerName,     \* const ownerName (sanitized), <<>> before validation
    validationError, \* message thrown by the validation part, or NoError
    retryCount,    \* let retryCount
    lastError,     \* let lastError (NoError models null)
    response,      \* let response (NoResponse models undefined)
    lastOutcome,   \* what the most recent request did (NoOutcome before the first)
    netCalls,      \* number of request()/axios.post() calls issued
    sleeps,        \* the waitTime of every backoff setTimeout, in order
    events,        \* order of network calls and sleeps: "call" | "sleep"
    warnings,      \* core.warning calls, in order
    failed,        \* process.exitCode was set to failure by core.setFailed
    failureMsg,    \* message of the latest core.setFailed call
    successLogged, \* core.info('Upload successful!') was executed
    output,        \* value passed to core.setOutput('results', ...), NoOutput if never
    outputCount,   \* number of core.setOutput('results', ...) calls
    streamRead,    \* bytes were already read from the one fs.createReadStream
    bodySent,      \* state of the file stream handed to the latest request
    optIn,         \* raw values of the optional inputs, by input name
    formData,      \* the fields appended to const formData, in order
    log,           \* what run() told the host, in order: secrets, log lines,
                   \* requests, the output
    commentThread, \* the comments of the review thread, in the store's order
    enableIn,      \* raw value of the enable_pr_comment input
    hasThread,     \* whether the run was triggered by a review-thread event
    runs,          \* per invocation: where its comment reconciliation stands
    overlapped,    \* whether an invocation began while another was reconciling
    sanitized      \* a free-text value and what sanitizeInput made of it

\* The state of one run of the upload step.
uploadVars == << variant, apiTokenIn, ownerNameIn, fileKind, fileExt, pc, ownerName,
           validationError, retryCount, lastError, response, lastOutcome,
           netCalls, sleeps, events, warnings, failed, failureMsg,
           successLogged, output, outputCount, streamRead, bodySent,
           optIn, formData, log >>

\* State outside run(): what the upload step leaves alone.
commentVars == << commentThread, enableIn, hasThread, runs, overlapped >>

otherVars == << sanitized, commentVars >>

vars == << uploadVars, otherVars >>

(***************************************************************************)
(* Bounds of the model.                                                    *)
(***************************************************************************)
MaxInputLen == 1

(***************************************************************************)
(* Program constants.                                                      *)
(***************************************************************************)
maxRetriesUndici == 3
maxRetriesAxios == 1
backoffBaseMs == 5000
httpErrorFloor == 400

Variants == {"undici", "axios"}

\* Variant of maxRetries where both implementations retry.
maxRetries_BothRetry(v) == maxRetriesUndici

maxRetries(v) == IF v = "undici" THEN maxRetriesUndici ELSE maxRetriesAxios

(***************************************************************************)
(* Characters are code points.  The inputs of a run are sequences over a   *)
(* three-letter alphabet: a printable character (a), a blank (whitespace,  *)
(* not a control character) and a control character that is not whitespace *)
(* (U+0001).                                                               *)
(***************************************************************************)
Printable == 97
Blank == 32
Control == 1
Chars == {Printable, Blank, Control}

\* The character class [\u0000-\u001F\u007F-\u009F] of sanitizeInput.
ControlChars == (0..31) \cup (127..159)

\* What String.prototype.trim removes: WhiteSpace and LineTerminator.
WhitespaceChars ==
    {9, 10, 11, 12, 13, 32, 160, 5760, 8232, 8233, 8239, 8287, 12288, 65279}
        \cup (8192..8202)

InputStrings == UNION {[1..n -> Chars] : n \in 0..MaxInputLen}

\* String.prototype.trim: drop leading and trailing whitespace.
RECURSIVE TrimLeft(_)
TrimLeft(s) ==
    IF s # <<>> /\ Head(s) \in WhitespaceChars THEN TrimLeft(Tail(s)) ELSE s

RECURSIVE TrimRight(_)
TrimRight(s) ==
    IF s # <<>> /\ s[Len(s)] \in WhitespaceChars
    THEN TrimRight(SubSeq(s, 1, Len(s) - 1))
    ELSE s

Trim(s) == TrimRight(TrimLeft(s))

\* Variant of sanitizeInput whose pattern lacks the g flag: only the first
\* control character is removed.
RECURSIVE sanitizeInput_FirstOnly(_)
sanitizeInput_FirstOnly(input) ==
    IF input = <<>> THEN <<>>
    ELSE IF Head(input) \in ControlChars
         THEN Tail(input)
         ELSE <<Head(input)>> \o sanitizeInput_FirstOnly(Tail(input))

\* input.replace(/[\u0000-\u001F\u007F-\u009F]/g, '')
RECURSIVE sanitizeInput(_)
sanitizeInput(input) ==
    IF input = <<>> THEN <<>>
    ELSE IF Head(input) \in ControlChars
         THEN sanitizeInput(Tail(input))
         ELSE <<Head(input)>> \o sanitizeInput(Tail(input))

\* core.getInput(name, { required: true }): throws on an empty value, else
\* returns the trimmed value.
RequiredMissing(raw) == raw = <<>>
getInput(raw) == Trim(raw)

\* String.prototype.toLowerCase, on the letters A-Z.
toLowerCase(str) ==
    [i \in 1..Len(str) |-> IF str[i] \in 65..90 THEN str[i] + 32 ELSE str[i]]

\* The strings 'true' and 'false'.
TrueText == <<116, 114, 117, 101>>
FalseText == <<102, 97, 108, 115, 101>>

\* Boolean.prototype.toString
BoolText(b) == IF b THEN TrueText ELSE FalseText

(***************************************************************************)
(* The optional inputs (lines 71-77) and the multipart form (lines 90-98). *)
(***************************************************************************)
TextInputNames == << "message", "distribution_key", "distribution_name", "release_note" >>
OptionalInputNames == {"message", "distribution_key", "distribution_name",
                       "release_note", "disable_notify"}

\* sanitizeInput(core.getInput(name))
optionalValue(raw) == sanitizeInput(getInput(raw))

\* Variant of disableNotifyOf that compares without lowering the case.
disableNotifyOf_CaseSensitive(raw) == optionalValue(raw) = TrueText

\* disableNotifyInput.toLowerCase() === 'true'
disableNotifyOf(raw) == toLowerCase(optionalValue(raw)) = TrueText

FileField == [name |-> "file", kind |-> "stream", value |-> <<>>]
TextField(name, value) == [name |-> name, kind |-> "text", value |-> value]

\* if (x) formData.append(name, x), for the four text inputs in order.
RECURSIVE appendPresent(_, _)
appendPresent(names, opt) ==
    IF names = <<>> THEN <<>>
    ELSE (IF optionalValue(opt[Head(names)]) # <<>>
          THEN << TextField(Head(names), optionalValue(opt[Head(names)])) >>
          ELSE <<>>)
         \o appendPresent(Tail(names), opt)

\* Lines 91-98: the file, the text inputs that are non-empty, the flag.
buildFormData(opt) ==
    << FileField >>
        \o appendPresent(TextInputNames, opt)
        \o << TextField("disable_notify", BoolText(disableNotifyOf(opt["disable_notify"]))) >>

\* Entries of the log.
Secret(what) == [op |-> "setSecret", what |-> what]
Info(what) == [op |-> "info", what |-> what]
Warning(what) == [op |-> "warning", what |-> what]
ErrorLine(what) == [op |-> "error", what |-> what]
RequestSent == [op |-> "request", what |-> "Authorization, owner in URL"]
OutputSet == [op |-> "setOutput", what |-> "results"]

(***************************************************************************)
(* The file system as file_path sees it.                                   *)
(***************************************************************************)
FileKinds == {"missing", "directory", "emptyDirectory", "empty", "regular"}

\* fs.existsSync, fs.statSync(...).isFile() and .size (1 for any size > 0;
\* a directory has size 0 on some file systems).
existsSync(kind) == kind # "missing"
isFile(kind) == kind \in {"empty", "regular"}
sizeOf(kind) == IF kind \in {"empty", "emptyDirectory"} THEN 0 ELSE 1
FileExts == {".apk", ".zip"}
SupportedExts == {".ipa", ".apk", ".aab"}

\* An Error object: what kind of failure produced it, the HTTP status it
\* carries (0 when it carries none) and its message, as the parts the code
\* concatenates.
NoError == [kind |-> "none", status |-> 0, msg |-> <<>>]
MkError(kind, status, msg) == [kind |-> kind, status |-> status, msg |-> msg]

NoResponse == [parsed |-> FALSE]
NoOutcome == [net |-> "none"]
NoOutput == [set |-> FALSE]
NoMsg == "<absent>"
NoResults == [absent |-> TRUE]

(***************************************************************************)
(* What a request can do.  Either the transport fails (request() rejects), *)
(* having read from the file stream or not, or a status line arrives with  *)
(* a body that is malformed or is a JSON object {error, message?,          *)
(* results?}; a request that got a response has sent its body.             *)
(***************************************************************************)
Statuses == {200, 399, 400}
TransportCodes == {"ETIMEDOUT"}
ServerMessages == {NoMsg, "srv"}

\* JSON values as body.json() returns them: null, numbers (by their
\* decimal text), strings, and objects as the sequence of their members in
\* insertion order.
JNull == [t |-> "null", v |-> "null"]
JNum(n) == [t |-> "num", v |-> ToString(n)]
JStr(str) == [t |-> "str", v |-> str]
JObj(members) == [t |-> "obj", v |-> "", m |-> members]
Member(key, value) == [k |-> key, v |-> value]

\* results.file and the like: the value of member `key` of a JSON object,
\* NoResults (undefined) if it has none.
RECURSIVE Lookup(_, _)
Lookup(members, key) ==
    IF members = <<>> THEN NoResults
    ELSE IF Head(members).k = key THEN Head(members).v
    ELSE Lookup(Tail(members), key)

\* if (x), for a JSON value or undefined: false for undefined, null and ''.
Truthy(j) == j # NoResults /\ j # JNull /\ j # JStr("")

\* Two results records of the upload API (README, Output Structure).  The
\* first has a field the declared type does not name (md5), the nested
\* user record and a nested distribution record; the second has an empty
\* download URL, a null signature and no distribution.
ResultWithDistribution ==
    JObj(<< Member("name", JStr("App")),
            Member("revision", JNum(5)),
            Member("file", JStr("https://deploygate.com/file5")),
            Member("md5", JStr("0af3")),
            Member("user", JObj(<< Member("name", JStr("owner")) >>)),
            Member("distribution",
                   JObj(<< Member("url", JStr("https://deploygate.com/distributions/d1")),
                           Member("title", JStr("PR Build")) >>)) >>)

ResultPlain ==
    JObj(<< Member("name", JStr("App")),
            Member("revision", JNum(6)),
            Member("file", JStr("")),
            Member("signature", JNull),
            Member("user", JObj(<< Member("name", JStr("owner")),
                                   Member("id", JNum(7)) >>)) >>)

ResultRecords == {ResultWithDistribution, ResultPlain}
ResultValues == {NoResults} \cup ResultRecords

Bodies ==
    {[ok |-> FALSE]} \cup
    [ok : {TRUE}, error : BOOLEAN, message : ServerMessages, results : ResultValues]

Outcomes ==
    [net : {"transport"}, code : TransportCodes, read : BOOLEAN] \cup
    [net : {"response"}, status : Statuses, body : Bodies]

\* `x || fallback` on an optional string.
OrElse(m, fallback) == IF m = NoMsg THEN fallback ELSE m

\* Math.pow(2, retryCount) * 5000
RECURSIVE Pow2(_)
Pow2(n) == IF n = 0 THEN 1 ELSE 2 * Pow2(n - 1)

\* Variant of waitTime that counts the failed attempt from 0.
waitTime_CountsFromZero(count) == Pow2(count - 1) * backoffBaseMs

waitTime(count) == Pow2(count) * backoffBaseMs

\* JSON text is a sequence of tokens: punctuation, and the scalar values
\* (a key is a string token).
Punct(c) == [t |-> "punct", v |-> c]

\* The JSON text of a value: a scalar is its own token, an object is
\* { "key" : value , ... } with its members in order.
RECURSIVE SerializeValue(_)
RECURSIVE SerializeMembers(_)
SerializeMembers(members) ==
    IF members = <<>> THEN <<>>
    ELSE << JStr(Head(members).k), Punct(":") >>
            \o SerializeValue(Head(members).v)
            \o (IF Tail(members) = <<>> THEN <<>> ELSE << Punct(",") >>)
            \o SerializeMembers(Tail(members))

SerializeValue(value) ==
    IF value.t = "obj"
    THEN << Punct("{") >> \o SerializeMembers(value.m) \o << Punct("}") >>
    ELSE << value >>

\* Variant of SerializeValue that writes a nested object as {}.
SerializeValue_Shallow(value) ==
    IF value.t = "obj"
    THEN << Punct("{") >>
            \o SerializeMembers(
                  [i \in 1..Len(value.m) |->
                      IF value.m[i].v.t = "obj"
                      THEN Member(value.m[i].k, JObj(<<>>))
                      ELSE value.m[i]])
            \o << Punct("}") >>
    ELSE << value >>

\* Variant of JSONstringify built on it.
JSONstringify_Shallow(r) ==
    IF r = NoResults THEN [defined |-> FALSE, text |-> <<>>]
    ELSE [defined |-> TRUE, text |-> SerializeValue_Shallow(r)]

\* JSON.stringify(response?.results): undefined stays undefined, a record
\* becomes its JSON text.
Undefined == [defined |-> FALSE, text |-> <<>>]
JSONstringify(r) ==
    IF r = NoResults THEN Undefined
    ELSE [defined |-> TRUE, text |-> SerializeValue(r)]

\* core.setOutput turns its value into a string: undefined becomes ''.
toCommandValue(x) == x.text

(***************************************************************************)
(* Input validation, main.ts 36-69 (and 247-278): the message of the error *)
(* it throws, or NoMsg when every check passes.  The checks run in the     *)
(* order of the code, so the first that fails decides.                     *)
(***************************************************************************)
\* Variant of ValidationFailure without the size check of line 67.
ValidationFailure_NoSizeCheck(token, owner, kind) ==
    IF RequiredMissing(token)
        THEN "Input required and not supplied: api_token"
    ELSE IF getInput(token) = <<>>
        THEN "API token is required and cannot be empty"
    ELSE IF RequiredMissing(owner)
        THEN "Input required and not supplied: owner_name"
    ELSE IF sanitizeInput(getInput(owner)) = <<>>
        THEN "Owner name is required and cannot be empty"
    ELSE IF ~existsSync(kind)
        THEN "File not found"
    ELSE IF ~isFile(kind)
        THEN "Not a file"
    ELSE NoMsg

\* Variant of ValidationFailure that tests the owner name as it was read,
\* before sanitizeInput.
ValidationFailure_OwnerUnsanitized(token, owner, kind) ==
    IF RequiredMissing(token)
        THEN "Input required and not supplied: api_token"
    ELSE IF getInput(token) = <<>>
        THEN "API token is required and cannot be empty"
    ELSE IF RequiredMissing(owner)
        THEN "Input required and not supplied: owner_name"
    ELSE IF getInput(owner) = <<>>
        THEN "Owner name is required and cannot be empty"
    ELSE IF ~existsSync(kind)
        THEN "File not found"
    ELSE IF ~isFile(kind)
        THEN "Not a file"
    ELSE IF sizeOf(kind) = 0
        THEN "File is empty"
    ELSE NoMsg

\* Variant of ValidationFailure that looks at the size before the file type.
ValidationFailure_SizeFirst(token, owner, kind) ==
    IF RequiredMissing(token)
        THEN "Input required and not supplied: api_token"
    ELSE IF getInput(token) = <<>>
        THEN "API token is required and cannot be empty"
    ELSE IF RequiredMissing(owner)
        THEN "Input required and not supplied: owner_name"
    ELSE IF sanitizeInput(getInput(owner)) = <<>>
        THEN "Owner name is required and cannot be empty"
    ELSE IF ~existsSync(kind)
        THEN "File not found"
    ELSE IF sizeOf(kind) = 0
        THEN "File is empty"
    ELSE IF ~isFile(kind)
        THEN "Not a file"
    ELSE NoMsg

ValidationFailure(token, owner, kind) ==
    IF RequiredMissing(token)
        THEN "Input required and not supplied: api_token"
    ELSE IF getInput(token) = <<>>
        THEN "API token is required and cannot be empty"
    ELSE IF RequiredMissing(owner)
        THEN "Input required and not supplied: owner_name"
    ELSE IF sanitizeInput(getInput(owner)) = <<>>
        THEN "Owner name is required and cannot be empty"
    ELSE IF ~existsSync(kind)
        THEN "File not found"
    ELSE IF ~isFile(kind)
        THEN "Not a file"
    ELSE IF sizeOf(kind) = 0
        THEN "File is empty"
    ELSE NoMsg

\* The extension warning of lines 60-65 is reached once the path names an
\* existing regular file, before the size check.
ExtensionWarned(token, owner, kind, ext) ==
    /\ ValidationFailure(token, owner, kind) \in {NoMsg, "File is empty"}
    /\ ext \notin SupportedExts

(***************************************************************************)
(* What validation tells the host, in the order of lines 36-100: the two   *)
(* setSecret calls as far as validation gets, the extension warning, then  *)
(* either the log lines of the parameters or the setFailed of the outer    *)
(* catch.                                                                  *)
(***************************************************************************)
TokenRejected(f) ==
    f \in {"Input required and not supplied: api_token",
           "API token is required and cannot be empty"}

OwnerRejected(f) ==
    f \in {"Input required and not supplied: owner_name",
           "Owner name is required and cannot be empty"}

\* Lines 84-88: the log lines of the optional inputs that are non-empty.
optionalInfo(opt) ==
    (IF optionalValue(opt["message"]) # <<>> THEN << Info("Message") >> ELSE <<>>)
    \o (IF optionalValue(opt["distribution_key"]) # <<>>
        THEN << Info("Distribution key") >> ELSE <<>>)
    \o (IF optionalValue(opt["distribution_name"]) # <<>>
        THEN << Info("Distribution name") >> ELSE <<>>)
    \o (IF optionalValue(opt["release_note"]) # <<>>
        THEN << Info("Release note length") >> ELSE <<>>)

\* Variant of validateLog that flags the owner name only after the
\* parameters were logged.
validateLog_OwnerFlaggedLate(token, owner, kind, ext, opt) ==
    LET f == ValidationFailure(token, owner, kind) IN
    (IF TokenRejected(f) THEN <<>> ELSE << Secret("api_token") >>)
    \o (IF ExtensionWarned(token, owner, kind, ext)
        THEN << Warning("extension") >> ELSE <<>>)
    \o (IF f # NoMsg THEN << ErrorLine("error.message") >>
        ELSE << Info("File path"), Info("File size"), Info("File type") >>
             \o optionalInfo(opt)
             \o << Info("Disable notify"), Secret("owner_name"),
                   Info("Sending request") >>)

validateLog(token, owner, kind, ext, opt) ==
    LET f == ValidationFailure(token, owner, kind) IN
    (IF TokenRejected(f) THEN <<>> ELSE << Secret("api_token") >>)
    \o (IF TokenRejected(f) \/ OwnerRejected(f) THEN <<>> ELSE << Secret("owner_name") >>)
    \o (IF ExtensionWarned(token, owner, kind, ext)
        THEN << Warning("extension") >> ELSE <<>>)
    \o (IF f # NoMsg THEN << ErrorLine("error.message") >>
        ELSE << Info("File path"), Info("File size"), Info("File type") >>
             \o optionalInfo(opt)
             \o << Info("Disable notify"), Info("Sending request") >>)

(***************************************************************************)
(* Response interpretation.  Interpret(v, o) is the Error the attempt      *)
(* throws inside the retry loop for outcome o, or NoError when the loop    *)
(* reaches `break`.                                                        *)
(***************************************************************************)
\* Variant of InterpretUndici without the error-flag check of line 131.
InterpretUndici_IgnoresErrorFlag(o) ==
    IF o.net = "transport"
        THEN MkError("transport", 0, <<o.code>>)
    ELSE IF ~o.body.ok
        THEN MkError("parse", 0, <<"Unexpected token in JSON">>)
    ELSE IF o.status >= httpErrorFloor
        THEN MkError("http", o.status,
                     <<"HTTP Error: ", ToString(o.status), " - ",
                       OrElse(o.body.message, "Unknown error")>>)
    ELSE NoError

\* undici, lines 110-136: the body is parsed before the status is looked at.
InterpretUndici(o) ==
    IF o.net = "transport"
        THEN MkError("transport", 0, <<o.code>>)
    ELSE IF ~o.body.ok
        THEN MkError("parse", 0, <<"Unexpected token in JSON">>)
    ELSE IF o.status >= httpErrorFloor
        THEN MkError("http", o.status,
                     <<"HTTP Error: ", ToString(o.status), " - ",
                       OrElse(o.body.message, "Unknown error")>>)
    ELSE IF o.body.error
        THEN MkError("application", 0, <<OrElse(o.body.message, "Upload failed")>>)
    ELSE NoError

\* axios, lines 323-346: axios.post rejects on a transport failure and on
\* every status outside 200..299; it never rejects for what the body says.
InterpretAxios(o) ==
    IF o.net = "transport"
        THEN MkError("transport", 0, <<o.code>>)
    ELSE IF o.status < 200 \/ o.status >= 300
        THEN MkError("http", o.status,
                     <<"Request failed with status code ", ToString(o.status)>>)
    ELSE NoError

Interpret(v, o) == IF v = "undici" THEN InterpretUndici(o) ELSE InterpretAxios(o)

\* The value `response` holds after the attempt.  undici assigns it as soon
\* as the body parsed (line 125); axios assigns it when post() resolves, and
\* a body that is no JSON is kept as a string (no error flag, no results).
ResponseAfter(v, o, old) ==
    IF o.net = "transport" THEN old
    ELSE IF v = "undici"
        THEN IF o.body.ok THEN [parsed |-> TRUE, data |-> o.body] ELSE old
    ELSE IF InterpretAxios(o) # NoError THEN old
    ELSE IF o.body.ok THEN [parsed |-> TRUE, data |-> o.body]
    ELSE [parsed |-> TRUE,
          data |-> [ok |-> TRUE, error |-> FALSE, message |-> NoMsg,
                    results |-> NoResults]]

\* response?.results
ResultsOf(r) == IF r.parsed THEN r.data.results ELSE NoResults

\* axios only, lines 380-383: the error flag is looked at after the loop.
PostLoopError(v, r) ==
    IF v = "axios" /\ r.parsed /\ r.data.error
    THEN MkError("application", 0, <<OrElse(r.data.message, "Upload failed")>>)
    ELSE NoError

\* axios.isAxiosError(e): the errors axios.post rejects with.
isAxiosError(v, e) == v = "axios" /\ e.kind \in {"transport", "http"}

\* The last core.setFailed of the catch block inside the loop
\* (lines 138-143, 348-365).
LoopCatchMsg(v, e) ==
    IF isAxiosError(v, e) THEN <<"Error Config: ">>
    ELSE <<"Error Stack: ">> \o e.msg

\* The core.setFailed of the outer catch (lines 177-183, 404-419).
OuterCatchMsg(v, e) ==
    IF isAxiosError(v, e) THEN <<"DeployGate upload failed: ">> \o e.msg
    ELSE e.msg

\* The core.setFailed lines of the catch block inside the loop.
loopCatchLog(v, e) ==
    IF isAxiosError(v, e)
    THEN << ErrorLine("Error Message"), ErrorLine("Error Code"),
            ErrorLine("Error Status"), ErrorLine("Error Status Text"),
            ErrorLine("Error Response"), ErrorLine("Error Config") >>
    ELSE << ErrorLine("Error"), ErrorLine("Error Stack") >>

\* The lines of the outer catch: axios reports the response first.
outerCatchLog(v, e) ==
    IF isAxiosError(v, e)
    THEN << ErrorLine(IF e.kind = "http" THEN "API Error" ELSE "No response received"),
            ErrorLine("DeployGate upload failed") >>
    ELSE << ErrorLine("error.message") >>

\* Lines 160-176 (385-401): what the success path tells the host.
successLog(results) ==
    << Info("Upload successful!") >>
    \o (IF Truthy(results)
        THEN << Info("App name"), Info("Package name"), Info("OS"), Info("Version") >>
             \o (IF Truthy(Lookup(results.m, "file"))
                 THEN << Secret("results.file"),
                         Info("Download URL is available in the outputs") >>
                 ELSE <<>>)
        ELSE <<>>)
    \o << OutputSet >>

\* Variant of recordError that keeps the first error of the run.
recordError_KeepsFirst(old, err) == IF old # NoError THEN old ELSE err

\* lastError = error as Error (line 144, 366): the latest error replaces
\* the one before.
recordError(old, err) == err

\* Variants of attemptsRemain: one attempt too many, one too few.
attemptsRemain_OneTooMany(count, max) == count <= max
attemptsRemain_OneTooFew(count, max) == count + 1 < max

\* while (retryCount < maxRetries), and the test of line 146 that guards the
\* backoff sleep.
attemptsRemain(count, max) == count < max

\* Variants of Thrown: rethrow lastError whenever it is set; never rethrow it.
Thrown_WheneverSet(v, err, count, resp) ==
    IF err # NoError THEN err ELSE PostLoopError(v, resp)
Thrown_NeverRethrown(v, err, count, resp) == PostLoopError(v, resp)

\* if (lastError && retryCount >= maxRetries) throw lastError;  followed, in
\* the axios variant, by the error-flag check.  The Error that leaves the
\* success path, NoError if none does.
Thrown(v, err, count, resp) ==
    IF err # NoError /\ count >= maxRetries(v) THEN err
    ELSE PostLoopError(v, resp)

(***************************************************************************)
(* The comment reconciler (spec 4.4).  Its code is not among the sources;  *)
(* it is modelled from the specification: after a successful upload, and   *)
(* if the feature is enabled and the run has a review thread, list the     *)
(* thread's comments, find the first whose body holds the marker, update   *)
(* it in place or else create a new one; a failed store call is caught and *)
(* reported as a warning.  Several invocations share one thread.           *)
(***************************************************************************)
NumRuns == 2

Runs == 1..NumRuns

\* A comment: its store-assigned id, whether its body holds the marker,
\* which run created it and which wrote its body last (0: neither).
Comment(id, marker, by) == [id |-> id, marker |-> marker, by |-> by, rev |-> by]

InitialThreads ==
    { <<>>,
      << Comment(1, FALSE, 0) >>,
      << Comment(1, TRUE, 0) >>,
      << Comment(1, FALSE, 0), Comment(2, TRUE, 0) >>,
      << Comment(1, TRUE, 0), Comment(2, FALSE, 0), Comment(3, TRUE, 0) >> }

\* '', 'true', 'false', 'FALSE', 'False', 'no', 'falsee'
EnableInputs ==
    {<<>>, TrueText, FalseText, <<70, 65, 76, 83, 69>>, <<70, 97, 108, 115, 101>>,
     <<110, 111>>, FalseText \o <<101>>}

\* Variant of prCommentEnabled that takes only 'true' for enabled.
prCommentEnabled_OnlyTrue(raw) == toLowerCase(raw) = TrueText

\* Enabled unless the value is 'false' in any letter case.
prCommentEnabled(raw) == toLowerCase(raw) # FalseText

\* Variant of findMarkerComment that finds the last marker comment.
RECURSIVE findMarkerComment_Last(_)
findMarkerComment_Last(comments) ==
    IF comments = <<>> THEN 0
    ELSE IF comments[Len(comments)].marker THEN comments[Len(comments)].id
    ELSE findMarkerComment_Last(SubSeq(comments, 1, Len(comments) - 1))

\* Variant of findMarkerComment that never finds one.
findMarkerComment_Never(comments) == 0

\* The id of the first comment whose body holds the marker, 0 if none.
RECURSIVE findMarkerComment(_)
findMarkerComment(comments) ==
    IF comments = <<>> THEN 0
    ELSE IF Head(comments).marker THEN Head(comments).id
    ELSE findMarkerComment(Tail(comments))

\* An invocation before it is triggered.  `failed` and `outputSet` are the
\* run's status and results output, set by its upload.
IdleRun ==
    [cpc |-> "idle", listed |-> <<>>, found |-> 0, target |-> 0,
     lists |-> 0, creates |-> 0, updates |-> 0, warnings |-> 0,
     storeFailed |-> FALSE, failed |-> FALSE, outputSet |-> FALSE]

\* Variant of onStoreError that reports the run as failed.
onStoreError_Fails(run) ==
    [run EXCEPT !.cpc = "done", !.storeFailed = TRUE, !.failed = TRUE]

\* A store call threw: the catch writes a warning and the run ends.
onStoreError(run) ==
    [run EXCEPT !.cpc = "done", !.storeFailed = TRUE, !.warnings = @ + 1]

\* No invocation is reconciling comments.
NotCommenting ==
    /\ commentThread = <<>>
    /\ enableIn = TrueText
    /\ hasThread = FALSE
    /\ runs = [r \in Runs |-> IdleRun]
    /\ overlapped = FALSE

(***************************************************************************)
(* The state after construction: nothing has run; the inputs and the file  *)
(* are whatever the workflow supplies.                                     *)
(***************************************************************************)
UploadInit ==
    /\ variant \in Variants
    /\ apiTokenIn \in InputStrings
    /\ ownerNameIn \in InputStrings
    /\ fileKind \in FileKinds
    /\ fileExt \in FileExts
    /\ pc = "start"
    /\ ownerName = <<>>
    /\ validationError = NoMsg
    /\ retryCount = 0
    /\ lastError = NoError
    /\ response = NoResponse
    /\ lastOutcome = NoOutcome
    /\ netCalls = 0
    /\ sleeps = <<>>
    /\ events = <<>>
    /\ warnings = <<>>
    /\ failed = FALSE
    /\ failureMsg = <<>>
    /\ successLogged = FALSE
    /\ output = NoOutput
    /\ outputCount = 0
    /\ streamRead = FALSE
    /\ bodySent = "none"
    /\ formData = <<>>
    /\ log = <<>>

\* The optional inputs of a workflow that supplies none of them (action.yml
\* defaults disable_notify to 'false'), and of one that supplies them all.
NoOptionalInputs ==
    [n \in OptionalInputNames |-> IF n = "disable_notify" THEN FalseText ELSE <<>>]
AllOptionalInputs ==
    [n \in OptionalInputNames |-> IF n = "disable_notify" THEN TrueText ELSE <<Printable>>]
TypicalOptionalInputs == {NoOptionalInputs, AllOptionalInputs}

\* No free-text value is being looked at.
NotSanitizing == sanitized = [input |-> <<>>, outs |-> <<>>]

Init ==
    /\ UploadInit
    /\ optIn \in TypicalOptionalInputs
    /\ NotSanitizing
    /\ NotCommenting

(***************************************************************************)
(* run(), from its first line to the first request (lines 34-108): input   *)
(* validation, the extension warning, FormData creation.  A throw goes to  *)
(* the outer catch, which calls core.setFailed(error.message).             *)
(***************************************************************************)
Validate ==
    /\ pc = "start"
    /\ LET f == ValidationFailure(apiTokenIn, ownerNameIn, fileKind) IN
        /\ validationError' = f
        /\ warnings' = IF ExtensionWarned(apiTokenIn, ownerNameIn, fileKind, fileExt)
                       THEN <<"extension">> ELSE <<>>
        /\ log' = validateLog(apiTokenIn, ownerNameIn, fileKind, fileExt, optIn)
        /\ IF f # NoMsg
           THEN /\ failed' = TRUE
                /\ failureMsg' = <<f>>
                /\ pc' = "done"
                /\ UNCHANGED << ownerName, formData >>
           ELSE /\ ownerName' = sanitizeInput(getInput(ownerNameIn))
                /\ formData' = buildFormData(optIn)
                /\ pc' = "request"
                /\ UNCHANGED << failed, failureMsg >>
    /\ UNCHANGED << variant, apiTokenIn, ownerNameIn, fileKind, fileExt,
                    retryCount, lastError, response, lastOutcome, netCalls,
                    sleeps, events, successLogged, output, outputCount,
                    streamRead, bodySent, optIn >>
    /\ UNCHANGED otherVars

(***************************************************************************)
(* One pass through the head of the loop body: the request is issued with  *)
(* the FormData built once at lines 91-98 (301-308), whose file stream is  *)
(* the one created there.                                                  *)
(***************************************************************************)
SendRequest ==
    /\ pc = "request"
    /\ attemptsRemain(retryCount, maxRetries(variant))
    /\ netCalls' = netCalls + 1
    /\ events' = Append(events, "call")
    /\ bodySent' = IF streamRead THEN "consumed" ELSE "fresh"
    /\ log' = Append(log, RequestSent)
    /\ pc' = "awaiting"
    /\ UNCHANGED << variant, apiTokenIn, ownerNameIn, fileKind, fileExt,
                    ownerName, validationError, retryCount, lastError,
                    response, lastOutcome, sleeps, warnings, failed,
                    failureMsg, successLogged, output, outputCount,
                    streamRead, optIn, formData >>
    /\ UNCHANGED otherVars

(***************************************************************************)
(* The request settles with outcome o.  The code then runs without         *)
(* suspension up to the backoff timer or to the end of run().              *)
(***************************************************************************)
\* Whether the attempt read from the file stream.
StreamReadBy(o) == IF o.net = "response" THEN TRUE ELSE o.read

Receive(o) ==
    /\ pc = "awaiting"
    /\ lastOutcome' = o
    /\ streamRead' = (streamRead \/ StreamReadBy(o))
    /\ response' = ResponseAfter(variant, o, response)
    /\ LET err == Interpret(variant, o)
           caught == err # NoError
           count == IF caught THEN retryCount + 1 ELSE retryCount
           newLast == IF caught THEN recordError(lastError, err) ELSE lastError
           again == caught /\ attemptsRemain(count, maxRetries(variant))
           thrown == Thrown(variant, newLast, count, response')
       IN
        /\ retryCount' = count
        /\ lastError' = newLast
        /\ IF again
           THEN /\ failed' = TRUE
                /\ failureMsg' = LoopCatchMsg(variant, err)
                /\ warnings' = Append(warnings, "retry")
                /\ sleeps' = Append(sleeps, waitTime(count))
                /\ events' = Append(events, "sleep")
                /\ log' = log \o loopCatchLog(variant, err)
                                \o << Warning("Upload failed, retrying") >>
                /\ pc' = "sleep"
                /\ UNCHANGED << successLogged, output, outputCount >>
           ELSE /\ pc' = "done"
                /\ UNCHANGED << warnings, sleeps, events >>
                /\ IF thrown # NoError
                   THEN /\ failed' = TRUE
                        /\ failureMsg' = OuterCatchMsg(variant, thrown)
                        /\ log' = log
                                    \o (IF caught THEN loopCatchLog(variant, err)
                                        ELSE <<>>)
                                    \o outerCatchLog(variant, thrown)
                        /\ UNCHANGED << successLogged, output, outputCount >>
                   ELSE /\ failed' = (failed \/ caught)
                        /\ failureMsg' = failureMsg
                        /\ successLogged' = TRUE
                        /\ output' =
                              [set |-> TRUE,
                               value |-> toCommandValue(
                                            JSONstringify(ResultsOf(response')))]
                        /\ outputCount' = outputCount + 1
                        /\ log' = log
                                    \o (IF caught THEN loopCatchLog(variant, err)
                                        ELSE <<>>)
                                    \o successLog(ResultsOf(response'))
    /\ UNCHANGED << variant, apiTokenIn, ownerNameIn, fileKind, fileExt,
                    ownerName, validationError, netCalls, bodySent, optIn,
                    formData >>
    /\ UNCHANGED otherVars

\* The backoff timer of line 151 (371) fires and the loop goes round.
BackoffElapsed ==
    /\ pc = "sleep"
    /\ pc' = "request"
    /\ UNCHANGED << variant, apiTokenIn, ownerNameIn, fileKind, fileExt,
                    ownerName, validationError, retryCount, lastError,
                    response, lastOutcome, netCalls, sleeps, events, warnings,
                    failed, failureMsg, successLogged, output, outputCount,
                    streamRead, bodySent, optIn, formData, log >>
    /\ UNCHANGED otherVars

Next ==
    \/ Validate
    \/ SendRequest
    \/ \E o \in Outcomes : Receive(o)
    \/ BackoffElapsed

Spec == Init /\ [][Next]_vars

\* The same run where nothing is left waiting for ever: the code between
\* two awaits runs to the next await, every request settles (request()
\* resolves or rejects) and every backoff timer fires.
\* One input of each kind: not supplied, blank, a control character, a value.
LiveInputs == {<<>>, <<Blank>>, <<Control>>, <<Printable>>}

InitLive ==
    /\ Init
    /\ apiTokenIn \in LiveInputs
    /\ ownerNameIn \in LiveInputs

SpecLive ==
    /\ InitLive
    /\ [][Next]_vars
    /\ WF_vars(Validate)
    /\ WF_vars(SendRequest)
    /\ WF_vars(\E o \in Outcomes : Receive(o))
    /\ WF_vars(BackoffElapsed)

(***************************************************************************)
(* sanitizeInput on its own (lines 186-191): a free-text value over an     *)
(* alphabet that holds both ends of each stripped range and their          *)
(* neighbours, sanitized and then sanitized again.  The upload step does   *)
(* not run meanwhile.                                                      *)
(***************************************************************************)
MaxSanitizeLen == 3

SanitizeAlphabet == {0, 31, 32, 97, 126, 127, 159, 160}

SanitizeStrings == UNION {[1..n -> SanitizeAlphabet] : n \in 0..MaxSanitizeLen}

\* The inputs of a run that passes validation and is about to run.
UploadNotStarted ==
    /\ UploadInit
    /\ variant = "undici"
    /\ apiTokenIn = <<Printable>>
    /\ ownerNameIn = <<Printable>>
    /\ fileKind = "regular"
    /\ fileExt = ".apk"
    /\ optIn = NoOptionalInputs

InitSanitize ==
    /\ UploadNotStarted
    /\ sanitized \in [input : SanitizeStrings, outs : {<<>>}]
    /\ NotCommenting

ApplySanitize ==
    /\ Len(sanitized.outs) < 2
    /\ sanitized' =
          [sanitized EXCEPT !.outs =
              Append(@, sanitizeInput(IF @ = <<>> THEN sanitized.input ELSE @[Len(@)]))]
    /\ UNCHANGED << uploadVars, commentVars >>

NextSanitize == ApplySanitize

SpecSanitize == InitSanitize /\ [][NextSanitize]_vars

(***************************************************************************)
(* The optional inputs on their own (lines 71-98): a run whose required    *)
(* inputs and file are accepted, with every combination of text inputs     *)
(* that are absent, blank, stripped to nothing or stripped to a value, and *)
(* of spellings of the notify flag; each request either fails in transit   *)
(* or is answered with a success.                                          *)
(***************************************************************************)
TextInputs == {<<>>, <<Blank>>, <<Control>>, <<Control, Printable>>}

\* '', 'true', 'TRUE', 'True', 'false', ' true', 't\u0001rue', 'yes', 'truee'
NotifyInputs ==
    {<<>>, TrueText, <<84, 82, 85, 69>>, <<84, 114, 117, 101>>, FalseText,
     <<Blank>> \o TrueText, <<116, Control, 114, 117, 101>>,
     <<121, 101, 115>>, TrueText \o <<101>>}

FormInputs ==
    {opt \in [OptionalInputNames -> TextInputs \cup NotifyInputs] :
        /\ opt["disable_notify"] \in NotifyInputs
        /\ \A i \in 1..Len(TextInputNames) : opt[TextInputNames[i]] \in TextInputs}

FormOutcomes ==
    {o \in Outcomes :
        \/ o.net = "transport" /\ o.read
        \/ /\ o.net = "response"
           /\ o.status = 200
           /\ o.body = [ok |-> TRUE, error |-> FALSE, message |-> NoMsg,
                        results |-> ResultPlain]}

InitForm ==
    /\ UploadInit
    /\ apiTokenIn = <<Printable>>
    /\ ownerNameIn = <<Printable>>
    /\ fileKind = "regular"
    /\ fileExt = ".apk"
    /\ optIn \in FormInputs
    /\ NotSanitizing
    /\ NotCommenting

NextForm ==
    \/ Validate
    \/ SendRequest
    \/ \E o \in FormOutcomes : Receive(o)
    \/ BackoffElapsed

SpecForm == InitForm /\ [][NextForm]_vars

(***************************************************************************)
(* Comment reconciliation by NumRuns invocations on one thread.  Each      *)
(* invocation's upload is taken as having succeeded (its status is not     *)
(* failed and its results output is set) when it reaches the reconciler.   *)
(* A store call is one step; between the list and the create or update of  *)
(* one invocation, others may run.                                         *)
(***************************************************************************)
InitComment ==
    /\ UploadNotStarted
    /\ NotSanitizing
    /\ commentThread \in InitialThreads
    /\ enableIn \in EnableInputs
    /\ hasThread \in BOOLEAN
    /\ runs = [r \in Runs |-> IdleRun]
    /\ overlapped = FALSE

Reconciling(r) == runs[r].cpc \in {"list", "act"}

\* The upload of invocation r has succeeded; the reconciler is entered and
\* returns at once when the feature is disabled or there is no thread.
StartRun(r) ==
    /\ runs[r].cpc = "idle"
    /\ runs' = [runs EXCEPT ![r] =
                  [@ EXCEPT !.outputSet = TRUE,
                            !.cpc = IF prCommentEnabled(enableIn) /\ hasThread
                                    THEN "list" ELSE "done"]]
    /\ overlapped' = (overlapped \/ \E q \in Runs \ {r} : Reconciling(q))
    /\ UNCHANGED << commentThread, enableIn, hasThread, uploadVars, sanitized >>

\* list comments on thread
ListComments(r) ==
    /\ runs[r].cpc = "list"
    /\ runs' = [runs EXCEPT ![r] =
                  [@ EXCEPT !.lists = @ + 1,
                            !.listed = commentThread,
                            !.found = findMarkerComment(commentThread),
                            !.cpc = "act"]]
    /\ UNCHANGED << commentThread, enableIn, hasThread, overlapped, uploadVars,
                    sanitized >>

ListFails(r) ==
    /\ runs[r].cpc = "list"
    /\ runs' = [runs EXCEPT ![r] = onStoreError([@ EXCEPT !.lists = @ + 1])]
    /\ UNCHANGED << commentThread, enableIn, hasThread, overlapped, uploadVars,
                    sanitized >>

\* Variant of canCreate that looks at the thread again before creating.
canCreate_Rechecks(r) ==
    /\ runs[r].cpc = "act"
    /\ runs[r].found = 0
    /\ findMarkerComment(commentThread) = 0

\* Not found: create.  Nothing but the earlier list decides.
canCreate(r) == runs[r].cpc = "act" /\ runs[r].found = 0

\* create comment(thread, body): the store appends it under a new id.
CreateComment(r) ==
    /\ canCreate(r)
    /\ commentThread' = Append(commentThread, Comment(Len(commentThread) + 1, TRUE, r))
    /\ runs' = [runs EXCEPT ![r] = [@ EXCEPT !.creates = @ + 1, !.cpc = "done"]]
    /\ UNCHANGED << enableIn, hasThread, overlapped, uploadVars, sanitized >>

CreateFails(r) ==
    /\ canCreate(r)
    /\ runs' = [runs EXCEPT ![r] = onStoreError([@ EXCEPT !.creates = @ + 1])]
    /\ UNCHANGED << commentThread, enableIn, hasThread, overlapped, uploadVars,
                    sanitized >>

\* Found: update comment(id, body) in place.
UpdateComment(r) ==
    /\ runs[r].cpc = "act"
    /\ runs[r].found # 0
    /\ commentThread' =
          [i \in 1..Len(commentThread) |->
              IF commentThread[i].id = runs[r].found
              THEN [commentThread[i] EXCEPT !.marker = TRUE, !.rev = r]
              ELSE commentThread[i]]
    /\ runs' = [runs EXCEPT ![r] =
                  [@ EXCEPT !.updates = @ + 1, !.target = runs[r].found,
                            !.cpc = "done"]]
    /\ UNCHANGED << enableIn, hasThread, overlapped, uploadVars, sanitized >>

UpdateFails(r) ==
    /\ runs[r].cpc = "act"
    /\ runs[r].found # 0
    /\ runs' = [runs EXCEPT ![r] =
                  onStoreError([@ EXCEPT !.updates = @ + 1,
                                         !.target = runs[r].found])]
    /\ UNCHANGED << commentThread, enableIn, hasThread, overlapped, uploadVars,
                    sanitized >>

NextComment ==
    \/ \E r \in Runs : StartRun(r)
    \/ \E r \in Runs : ListComments(r)
    \/ \E r \in Runs : ListFails(r)
    \/ \E r \in Runs : CreateComment(r)
    \/ \E r \in Runs : CreateFails(r)
    \/ \E r \in Runs : UpdateComment(r)
    \/ \E r \in Runs : UpdateFails(r)

SpecComment == InitComment /\ [][NextComment]_vars

(***************************************************************************)
(* Vocabulary of the properties.  An attempt outcome is judged here by     *)
(* what arrived on the wire, not by what the code made of it.              *)
(***************************************************************************)
\* Reading JSON text back, as fromJSON(steps.deploygate.outputs.results)
\* does in a workflow: the value the text denotes and the text left over;
\* text that ends too early denotes no value.
RECURSIVE ParseValue(_)
RECURSIVE ParseMembers(_, _)
ParseMembers(tokens, acc) ==
    IF Len(tokens) < 3 /\ (tokens = <<>> \/ Head(tokens) # Punct("}"))
    THEN [val |-> NoResults, rest |-> <<>>]
    ELSE IF Head(tokens) = Punct("}")
    THEN [val |-> JObj(acc), rest |-> Tail(tokens)]
    ELSE LET ts == IF Head(tokens) = Punct(",") THEN Tail(tokens) ELSE tokens
             pv == ParseValue(Tail(Tail(ts)))
         IN ParseMembers(pv.rest, Append(acc, Member(Head(ts).v, pv.val)))

ParseValue(tokens) ==
    IF tokens = <<>> THEN [val |-> NoResults, rest |-> <<>>]
    ELSE IF Head(tokens) = Punct("{")
    THEN ParseMembers(Tail(tokens), <<>>)
    ELSE [val |-> Head(tokens), rest |-> Tail(tokens)]

JSONparse(text) == ParseValue(text).val

IsResponse(o) == o.net = "response"

\* A success response: HTTP status < 400 and a body with the error flag false.
SuccessResponse(o) ==
    /\ IsResponse(o)
    /\ o.status < 400
    /\ o.body.ok
    /\ ~o.body.error

\* A failed attempt: transport failure, malformed body, status >= 400 or
\* error flag set.
FailedAttempt(o) == o # NoOutcome /\ ~SuccessResponse(o)

\* e is an error of the attempt whose outcome is o.
ErrorFromOutcome(e, o) ==
    IF ~IsResponse(o) THEN e.kind = "transport" /\ e.msg = <<o.code>>
    ELSE IF ~o.body.ok THEN e.kind \in {"parse", "http"}
    ELSE IF o.status >= 400 THEN e.kind = "http" /\ e.status = o.status
    ELSE e.kind = "application" /\ e.msg = <<OrElse(o.body.message, "Upload failed")>>

UploadRan == validationError = NoMsg /\ lastOutcome # NoOutcome

\* C1: in the retrying implementation, a run whose attempts all failed (it
\* is over and its last attempt failed) made exactly maxRetries = 3 network
\* calls, ended failed with the message of the last attempt's error, logged
\* no success and set no output; and no run ever makes more than 3 calls.
C1_ExhaustionMakesMaxCalls ==
    variant = "undici" =>
        /\ netCalls <= maxRetriesUndici
        /\ (pc = "done" /\ UploadRan /\ FailedAttempt(lastOutcome)) =>
              /\ netCalls = 3
              /\ retryCount = 3
              /\ ErrorFromOutcome(lastError, lastOutcome)
              /\ failed
              /\ failureMsg = lastError.msg
              /\ ~successLogged
              /\ ~output.set

C1_Witness ==
    /\ variant = "undici"
    /\ pc = "done"
    /\ netCalls = 3
    /\ lastOutcome.net = "transport"
    /\ failed
    /\ failureMsg = <<"ETIMEDOUT">>

\* C2: in the retrying implementation, a run that is over and whose last
\* attempt returned a success response after N = retryCount failed attempts
\* made exactly N + 1 calls with N < 3, took no further step, and set the
\* results output once, from that response.  For N = 0 there was no retry,
\* no backoff and no retry warning, and with a supported file extension no
\* warning at all.
C2_SuccessOnAttemptNPlus1 ==
    (variant = "undici" /\ pc = "done" /\ UploadRan /\ SuccessResponse(lastOutcome)) =>
        /\ retryCount < 3
        /\ netCalls = retryCount + 1
        /\ Len(sleeps) = retryCount
        /\ ~ENABLED Next
        /\ successLogged
        /\ outputCount = 1
        /\ output.set
        /\ lastOutcome.body.results # NoResults =>
              JSONparse(output.value) = lastOutcome.body.results
        /\ retryCount = 0 =>
              /\ sleeps = <<>>
              /\ \A i \in 1..Len(warnings) : warnings[i] # "retry"
              /\ fileExt \in SupportedExts => warnings = <<>>

C2_Witness ==
    /\ variant = "undici"
    /\ pc = "done"
    /\ retryCount = 2
    /\ netCalls = 3
    /\ SuccessResponse(lastOutcome)
    /\ response.parsed
    /\ output.set
    /\ lastOutcome.body.results = ResultPlain
    /\ Lookup(JSONparse(output.value).m, "revision") = JNum(6)

\* C3 (as claimed): when the run is over, the process is marked failed if
\* and only if the upload ended in failure (validation error, or the last
\* attempt failed).
C3_FailedIffUploadFailed ==
    (variant = "undici" /\ pc = "done") =>
        (failed <=> (validationError # NoMsg \/ FailedAttempt(lastOutcome)))

\* C4: the k-th backoff sleep lasts 2^k * 5000 ms (10000, then 20000);
\* calls and sleeps alternate starting with a call, so exactly one sleep
\* lies between two consecutive attempts; a sleep is pending only while
\* attempts remain; a finished run ends on a call, never on a sleep.
C4_BackoffSchedule ==
    /\ \A k \in 1..Len(sleeps) : sleeps[k] = (2 ^ k) * 5000
    /\ \A i \in 1..Len(events) :
          events[i] = IF i % 2 = 1 THEN "call" ELSE "sleep"
    /\ Len(sleeps) = Len(events) \div 2
    /\ Len(sleeps) <= maxRetries(variant) - 1
    /\ pc = "sleep" => /\ Len(events) % 2 = 0
                       /\ Len(sleeps) = netCalls
                       /\ netCalls < maxRetries(variant)
                       /\ FailedAttempt(lastOutcome)
    /\ pc = "done" /\ UploadRan => /\ Len(events) % 2 = 1
                                   /\ Len(sleeps) = netCalls - 1

C4_Witness ==
    /\ pc = "done"
    /\ netCalls = 3
    /\ sleeps = <<10000, 20000>>
    /\ events = <<"call", "sleep", "call", "sleep", "call">>

\* The inputs the claim lists as failing validation.
InvalidInputs ==
    \/ apiTokenIn = <<>>
    \/ \A i \in 1..Len(ownerNameIn) : ownerNameIn[i] \in ControlChars
    \/ fileKind \in {"missing", "directory", "emptyDirectory", "empty"}

\* C5: with an empty credential, an owner that is empty once its control
\* characters are removed, or a path that is missing, not a regular file or
\* of size zero, no network call, sleep or retry ever happens, and the run
\* ends failed with no output.
C5_ValidationFailsBeforeNetwork ==
    InvalidInputs =>
        /\ netCalls = 0
        /\ events = <<>>
        /\ sleeps = <<>>
        /\ retryCount = 0
        /\ pc \in {"start", "done"}
        /\ pc = "done" => failed /\ validationError # NoMsg /\ ~output.set

C5_Witness ==
    /\ pc = "done"
    /\ fileKind = "empty"
    /\ validationError = "File is empty"
    /\ failed
    /\ netCalls = 0

\* An attempt outcome with HTTP status 200 and the error flag set.
ErrorFlag200(o) == IsResponse(o) /\ o.status = 200 /\ o.body.ok /\ o.body.error

\* C6: after a response with status 200 and error = true, the success path
\* is not taken and no output is set; the retrying implementation records
\* an application error for it; and if the run is over, it is failed with
\* the server message, or 'Upload failed' when there is none.
C6_ErrorFlagIsNeverSuccess ==
    (ErrorFlag200(lastOutcome) /\ pc # "awaiting") =>
        /\ ~successLogged
        /\ ~output.set
        /\ failed
        /\ variant = "undici" => lastError.kind = "application"
        /\ pc = "done" =>
              failureMsg = <<OrElse(lastOutcome.body.message, "Upload failed")>>

C6_Witness ==
    /\ pc = "done"
    /\ ErrorFlag200(lastOutcome)
    /\ lastOutcome.body.message = NoMsg
    /\ lastOutcome.body.results # NoResults
    /\ failureMsg = <<"Upload failed">>

\* C7: whatever the kind of failure, an attempt that fails while attempts
\* remain is followed by the backoff sleep, the sleep by the loop head, and
\* the loop head by another network call.
C7_EveryFailureKindRetries ==
    [][ /\ (pc = "awaiting" /\ pc' # "awaiting" /\ FailedAttempt(lastOutcome')
              /\ netCalls < maxRetries(variant)) => pc' = "sleep"
        /\ pc = "sleep" => pc' = "request"
        /\ pc = "request" => pc' = "awaiting" /\ netCalls' = netCalls + 1
      ]_vars

C7_Witness ==
    /\ pc = "awaiting"
    /\ netCalls = 3
    /\ lastError.kind = "application"
    /\ ErrorFlag200(lastOutcome)

\* C8 (as claimed): every attempt whose HTTP status is >= 400 yields an
\* HTTP error carrying that status, whether or not the body parses.
C8_HttpErrorCarriesStatus ==
    (variant = "undici" /\ pc # "awaiting" /\ IsResponse(lastOutcome)
        /\ lastOutcome.status >= 400) =>
            lastError.kind = "http" /\ lastError.status = lastOutcome.status

\* C9: the results output is set at most once, only by a run that passed
\* validation and whose last attempt got a response with status < 400 and
\* no error flag set; a run that ended in a validation failure or with its
\* retries exhausted has no output.
C9_OutputOnlyOnSuccess ==
    /\ outputCount <= 1
    /\ output.set <=> outputCount = 1
    /\ output.set =>
          /\ pc = "done"
          /\ UploadRan
          /\ IsResponse(lastOutcome)
          /\ lastOutcome.status < 400
          /\ lastOutcome.body.ok => ~lastOutcome.body.error
          /\ variant = "undici" => SuccessResponse(lastOutcome)
          /\ retryCount < maxRetries(variant)
    /\ (pc = "done" /\ validationError # NoMsg) => ~output.set
    /\ (pc = "done" /\ retryCount >= maxRetries(variant)) => ~output.set

C9_Witness ==
    /\ pc = "done"
    /\ variant = "undici"
    /\ retryCount = 3
    /\ response.parsed
    /\ response.data.results # NoResults
    /\ ~output.set
    /\ outputCount = 0

\* C10 (as claimed): every attempt sends a fresh file stream, never one a
\* previous attempt has read from.
C10_EveryAttemptSendsFreshStream ==
    bodySent # "consumed"

\* A C0 or C1 control character: U+0000..U+001F, U+007F..U+009F.
IsC0C1(c) == (0 <= c /\ c <= 31) \/ (127 <= c /\ c <= 159)
NotC0C1(c) == ~IsC0C1(c)

\* C17: the sanitized value is the input with exactly its C0/C1 control
\* characters taken out, the other characters in their order; it holds no
\* control character; sanitizing it again changes nothing.
C17_SanitizeStripsControlChars ==
    /\ Len(sanitized.outs) >= 1 =>
          /\ sanitized.outs[1] = SelectSeq(sanitized.input, NotC0C1)
          /\ \A i \in 1..Len(sanitized.outs[1]) : ~IsC0C1(sanitized.outs[1][i])
    /\ Len(sanitized.outs) = 2 => sanitized.outs[2] = sanitized.outs[1]

C17_Witness ==
    /\ sanitized.input = <<127, 97, 0>>
    /\ sanitized.outs = << <<97>>, <<97>> >>

\* C20: when a run has set the results output from a response that carries
\* a results record, reading the output back gives that record: the same
\* members with the same values, the fields the declared type does not
\* name and the nested user and distribution records included, and no
\* text is left over.
C20_OutputRoundTrips ==
    (output.set /\ IsResponse(lastOutcome) /\ lastOutcome.body.ok
        /\ lastOutcome.body.results # NoResults) =>
            /\ ParseValue(output.value).val = lastOutcome.body.results
            /\ ParseValue(output.value).rest = <<>>
            /\ \A i \in 1..Len(lastOutcome.body.results.m) :
                  Lookup(ParseValue(output.value).val.m,
                         lastOutcome.body.results.m[i].k)
                      = lastOutcome.body.results.m[i].v

C20_Witness ==
    /\ pc = "done"
    /\ output.set
    /\ lastOutcome.body.results = ResultWithDistribution
    /\ Lookup(JSONparse(output.value).m, "md5") = JStr("0af3")
    /\ Lookup(Lookup(JSONparse(output.value).m, "distribution").m, "url")
          = JStr("https://deploygate.com/distributions/d1")
    /\ Lookup(Lookup(JSONparse(output.value).m, "user").m, "name") = JStr("owner")


(***************************************************************************)
(* C16.  The credential and the owner name are flagged as secret before   *)
(* any log line is written and before any network call is made.  The only  *)
(* lines ahead of a flag are the failure reports of a run whose credential *)
(* or owner name is missing or empty, where there is no value to flag.     *)
(* The download URL of a successful response that carries one is flagged   *)
(* before the results output is set, and no log line is written from it.   *)
(***************************************************************************)
LogLineOps == {"info", "warning", "error"}

FlaggedBefore(i, what) ==
    \E j \in 1..(i - 1) : log[j] = [op |-> "setSecret", what |-> what]

\* The input as the step sees it is empty: nothing to flag.
NoToken == Trim(apiTokenIn) = <<>>
NoOwner == SelectSeq(Trim(ownerNameIn), NotC0C1) = <<>>

\* The latest response carried a results record with a download URL.
DownloadUrlReceived ==
    /\ lastOutcome.net = "response"
    /\ lastOutcome.body.ok
    /\ lastOutcome.body.results # NoResults
    /\ Lookup(lastOutcome.body.results.m, "file") \notin {NoResults, JNull, JStr("")}

C16_SecretsFlaggedFirst ==
    /\ \A i \in 1..Len(log) :
          log[i].op \in LogLineOps \cup {"request"} =>
            /\ \/ FlaggedBefore(i, "api_token")
               \/ NoToken /\ log[i].op = "error"
            /\ \/ FlaggedBefore(i, "owner_name")
               \/ (NoToken \/ NoOwner) /\ log[i].op = "error"
    /\ \A i \in 1..Len(log) :
          /\ log[i].op \in LogLineOps => log[i].what # "results.file"
          /\ (log[i].op = "setOutput" /\ DownloadUrlReceived)
             => FlaggedBefore(i, "results.file")

\* The claim as stated: a credential and an owner name that the workflow
\* supplied are both flagged ahead of every log line and every request.
C16_FlagsBeforeEveryLine ==
    /\ \A i \in 1..Len(log) :
          log[i].op \in LogLineOps \cup {"request"} =>
            /\ NoToken \/ FlaggedBefore(i, "api_token")
            /\ NoOwner \/ FlaggedBefore(i, "owner_name")
    /\ \A i \in 1..Len(log) :
          /\ log[i].op \in LogLineOps => log[i].what # "results.file"
          /\ (log[i].op = "setOutput" /\ DownloadUrlReceived)
             => FlaggedBefore(i, "results.file")

\* A retried upload succeeded with a download URL: both inputs were flagged
\* first, the URL was flagged, then the output was set.
C16_Witness ==
    /\ pc = "done"
    /\ netCalls = 2
    /\ output.set
    /\ lastOutcome.body.results = ResultWithDistribution
    /\ log[1] = [op |-> "setSecret", what |-> "api_token"]
    /\ log[2] = [op |-> "setSecret", what |-> "owner_name"]
    /\ log[Len(log)] = [op |-> "setOutput", what |-> "results"]
    /\ log[Len(log) - 2] = [op |-> "setSecret", what |-> "results.file"]
    /\ \E i \in 1..Len(log) : log[i].op = "request"


(***************************************************************************)
(* C18.  For a run whose credential and owner name are accepted, the file  *)
(* decides: a path that does not exist fails with 'File not found'; one    *)
(* that exists but is no regular file, whatever its size, with 'Not a      *)
(* file'; a regular file of size zero with 'File is empty'; any other file *)
(* is accepted and the upload is attempted.  An extension outside .ipa,    *)
(* .apk, .aab adds one warning for a regular file and changes nothing else.*)
(***************************************************************************)
CredentialsAccepted ==
    /\ Trim(apiTokenIn) # <<>>
    /\ SelectSeq(Trim(ownerNameIn), NotC0C1) # <<>>

RejectedWith(text) ==
    /\ pc = "done"
    /\ failed
    /\ failureMsg = <<text>>
    /\ netCalls = 0
    /\ ~output.set

ExtensionWarning == [op |-> "warning", what |-> "extension"]

WarnedOfExtension == \E i \in 1..Len(log) : log[i] = ExtensionWarning

C18_FileValidationOutcomes ==
    (CredentialsAccepted /\ pc # "start") =>
        /\ fileKind = "missing" => RejectedWith("File not found")
        /\ fileKind \in {"directory", "emptyDirectory"} => RejectedWith("Not a file")
        /\ fileKind = "empty" => RejectedWith("File is empty")
        /\ fileKind = "regular" =>
              /\ validationError = "<absent>"
              /\ pc = "done" => netCalls >= 1
              /\ pc = "request" /\ netCalls = 0 => ~failed
        /\ WarnedOfExtension <=>
              (fileKind \in {"empty", "regular"} /\ fileExt \notin {".ipa", ".apk", ".aab"})

\* A regular file with an unsupported extension was warned about and then
\* uploaded.
C18_Witness ==
    /\ CredentialsAccepted
    /\ fileKind = "regular"
    /\ fileExt = ".zip"
    /\ WarnedOfExtension
    /\ pc = "done"
    /\ output.set
    /\ netCalls = 1


(***************************************************************************)
(* C19.  The multipart body of every upload attempt holds the file field;  *)
(* holds message, distribution_key, distribution_name and release_note     *)
(* each exactly when its sanitized value is non-empty, with that value;    *)
(* and always holds disable_notify, as "true" exactly when the sanitized   *)
(* input spells true in any letter case, as "false" otherwise.             *)
(***************************************************************************)
\* The input as the step reads it, control characters removed.
SanitizedInput(name) == SelectSeq(Trim(optIn[name]), NotC0C1)

FieldsNamed(name) == {i \in 1..Len(formData) : formData[i].name = name}

SpellsTrue(str) ==
    /\ Len(str) = 4
    /\ str[1] \in {116, 84}
    /\ str[2] \in {114, 82}
    /\ str[3] \in {117, 85}
    /\ str[4] \in {101, 69}

ListedMarkers(r) ==
    {i \in 1..Len(runs[r].listed) : runs[r].listed[i].marker}

FirstListedMarker(r) ==
    CHOOSE i \in ListedMarkers(r) : \A j \in ListedMarkers(r) : i <= j

Reconciled(r) ==
    /\ runs[r].cpc = "done"
    /\ runs[r].lists = 1
    /\ ~runs[r].storeFailed

C11_FindOrCreate ==
    \A r \in Runs :
        Reconciled(r) =>
            IF ListedMarkers(r) # {}
            THEN /\ runs[r].updates = 1
                 /\ runs[r].creates = 0
                 /\ runs[r].target = runs[r].listed[FirstListedMarker(r)].id
            ELSE /\ runs[r].creates = 1
                 /\ runs[r].updates = 0
                 /\ runs[r].target = 0

\* On a thread that held two marker comments, run 1 updated the first and
\* left the other alone.
C11_Witness ==
    /\ Reconciled(1)
    /\ Len(runs[1].listed) = 3
    /\ ListedMarkers(1) = {1, 3}
    /\ runs[1].updates = 1
    /\ runs[1].creates = 0
    /\ runs[1].target = 1
    /\ commentThread[1].rev = 1
    /\ commentThread[3].rev = 0

(***************************************************************************)
(* C12.  On a thread that starts with no marker comment, invocations that  *)
(* do not overlap and whose store calls succeed leave at most one marker   *)
(* comment in every state, and exactly one once the first has completed.   *)
(***************************************************************************)
MarkerCount ==
    Cardinality({i \in 1..Len(commentThread) : commentThread[i].marker})

StartedWithoutMarker ==
    \A i \in 1..Len(commentThread) :
        commentThread[i].marker => commentThread[i].by # 0

AnyStoreFailure == \E r \in Runs : runs[r].storeFailed

C12_SequentialRunsKeepOneComment ==
    (StartedWithoutMarker /\ ~overlapped /\ ~AnyStoreFailure) =>
        /\ MarkerCount <= 1
        /\ (\E r \in Runs : Reconciled(r)) => MarkerCount = 1

\* Two invocations ran one after the other on an empty thread: the first
\* created the comment, the second updated it.
C12_Witness ==
    /\ ~overlapped
    /\ Reconciled(1)
    /\ Reconciled(2)
    /\ runs[1].creates = 1
    /\ runs[2].updates = 1
    /\ commentThread = << [id |-> 1, marker |-> TRUE, by |-> 1, rev |-> 2] >>

(***************************************************************************)
(* C13.  Nothing excludes the race: an invocation that listed a thread     *)
(* without a marker comment can create its comment whatever the thread     *)
(* holds by then, and every successful create adds a comment; so two       *)
(* invocations that both list before either creates leave two marker       *)
(* comments.                                                               *)
(***************************************************************************)
C13_NothingExcludesTheRace ==
    \A r \in Runs :
        /\ (runs[r].cpc = "act" /\ runs[r].lists = 1 /\ ListedMarkers(r) = {})
              => ENABLED CreateComment(r)
        /\ (runs[r].cpc = "done" /\ runs[r].creates = 1 /\ ~runs[r].storeFailed)
              => \E i \in 1..Len(commentThread) :
                    commentThread[i].marker /\ commentThread[i].by = r

\* Both invocations listed the empty thread, then both created.
C13_Witness ==
    /\ overlapped
    /\ runs[1].listed = <<>>
    /\ runs[2].listed = <<>>
    /\ runs[1].lists = 1
    /\ runs[2].lists = 1
    /\ Reconciled(1)
    /\ Reconciled(2)
    /\ MarkerCount = 2
    /\ {commentThread[i].by : i \in 1..Len(commentThread)} = {1, 2}

(***************************************************************************)
(* C14.  A list, create or update call that fails after a successful       *)
(* upload is reported as one warning and nothing else: the run ends, its   *)
(* status is not failed and its results output stays set.                  *)
(***************************************************************************)
C14_StoreFailureOnlyWarns ==
    \A r \in Runs :
        runs[r].storeFailed =>
            /\ runs[r].warnings = 1
            /\ ~runs[r].failed
            /\ runs[r].outputSet
            /\ runs[r].cpc = "done"

\* One invocation failed to list, the other failed to update.
C14_Witness ==
    /\ runs[1].storeFailed
    /\ runs[1].lists = 1
    /\ runs[1].creates + runs[1].updates = 0
    /\ runs[2].storeFailed
    /\ runs[2].updates = 1
    /\ \A r \in Runs : runs[r].warnings = 1 /\ ~runs[r].failed /\ runs[r].outputSet

(***************************************************************************)
(* C15.  With enable_pr_comment equal to "false" in any letter case, or    *)
(* without a review thread, an invocation makes no store call and is not   *)
(* failed; with any other value and a thread, it lists the thread.         *)
(***************************************************************************)
SpellsFalse(str) ==
    /\ Len(str) = 5
    /\ str[1] \in {102, 70}
    /\ str[2] \in {97, 65}
    /\ str[3] \in {108, 76}
    /\ str[4] \in {115, 83}
    /\ str[5] \in {101, 69}

C15_DisabledMakesNoCalls ==
    \A r \in Runs :
        runs[r].cpc # "idle" =>
            /\ (SpellsFalse(enableIn) \/ ~hasThread) =>
                  /\ runs[r].cpc = "done"
                  /\ runs[r].lists + runs[r].creates + runs[r].updates = 0
                  /\ ~runs[r].failed
                  /\ \A i \in 1..Len(commentThread) :
                        commentThread[i].by = 0 /\ commentThread[i].rev = 0
            /\ (~SpellsFalse(enableIn) /\ hasThread /\ runs[r].cpc = "done") =>
                  runs[r].lists = 1

\* Disabled by 'False' on a run that has a thread: both invocations ended
\* without a call.
C15_Witness ==
    /\ enableIn = <<70, 97, 108, 115, 101>>
    /\ hasThread
    /\ \A r \in Runs :
          /\ runs[r].cpc = "done"
          /\ runs[r].lists + runs[r].creates + runs[r].updates = 0
          /\ runs[r].outputSet


(***************************************************************************)
(* C21.  A run whose upload ended in failure (it sent a request and did    *)
(* not reach the success path) ends in the failed state, and the failure   *)
(* message set last is the message of the error of its last attempt, not   *)
(* of an earlier one: as it is in the retrying implementation, behind the  *)
(* prefix 'DeployGate upload failed: ' where the HTTP client reports the   *)
(* error in the other.                                                     *)
(***************************************************************************)
TerminalUploadFailure == pc = "done" /\ UploadRan /\ ~successLogged

\* The message of the error that an attempt with outcome o ends in.
MessageOfAttempt(v, o) ==
    IF ~IsResponse(o) THEN <<o.code>>
    ELSE IF v = "undici"
        THEN IF ~o.body.ok THEN <<"Unexpected token in JSON">>
             ELSE IF o.status >= 400
                 THEN <<"HTTP Error: ", ToString(o.status), " - ",
                        IF o.body.message = "<absent>" THEN "Unknown error"
                        ELSE o.body.message>>
             ELSE <<IF o.body.message = "<absent>" THEN "Upload failed"
                    ELSE o.body.message>>
    ELSE IF o.status < 200 \/ o.status >= 300
        THEN <<"Request failed with status code ", ToString(o.status)>>
    ELSE <<IF o.body.message = "<absent>" THEN "Upload failed" ELSE o.body.message>>

C21_FailureReasonIsLastError ==
    TerminalUploadFailure =>
        /\ failed
        /\ ~output.set
        /\ \/ failureMsg = MessageOfAttempt(variant, lastOutcome)
           \/ /\ variant = "axios"
              /\ failureMsg = <<"DeployGate upload failed: ">>
                                  \o MessageOfAttempt(variant, lastOutcome)

\* The third attempt was answered with status 400: the reason shown is its error.
C21_Witness ==
    /\ variant = "undici"
    /\ TerminalUploadFailure
    /\ netCalls = 3
    /\ lastOutcome.net = "response"
    /\ lastOutcome.status = 400
    /\ lastOutcome.body.ok
    /\ lastOutcome.body.message = "srv"
    /\ failed
    /\ failureMsg = <<"HTTP Error: ", "400", " - ", "srv">>


(***************************************************************************)
(* C22.  The retry state.  In every reachable state the attempt counter    *)
(* lies between 0 and the maximum and no more network calls were made than *)
(* the maximum.  In the retrying implementation the counter equals the     *)
(* number of failed attempts so far, the last-seen error is null exactly   *)
(* when no attempt has failed, and every step keeps to the machine         *)
(* Attempting(n) -> Success | Attempting(n+1) | Exhausted: a failed        *)
(* attempt adds exactly one to the counter and leads to the backoff before *)
(* the next attempt or, at the maximum, to the end of the run; a           *)
(* successful attempt leaves the counter alone and ends the run; no other  *)
(* step changes the counter.                                               *)
(***************************************************************************)
MaxAttempts == IF variant = "undici" THEN 3 ELSE 1

\* Attempts that have completed, and those of them that failed: every
\* completed attempt but a final successful one.
CompletedAttempts == IF pc = "awaiting" THEN netCalls - 1 ELSE netCalls

FailedSoFar ==
    IF pc # "awaiting" /\ SuccessResponse(lastOutcome)
    THEN CompletedAttempts - 1
    ELSE CompletedAttempts

C22_RetryStateInvariant ==
    /\ retryCount \in 0..MaxAttempts
    /\ netCalls \in 0..MaxAttempts
    /\ variant = "undici" =>
          /\ retryCount = FailedSoFar
          /\ (lastError.kind = "none") <=> (FailedSoFar = 0)

C22_RetryStateStep ==
    variant = "undici" =>
        IF pc = "awaiting" /\ pc' # "awaiting"
        THEN IF FailedAttempt(lastOutcome')
             THEN /\ retryCount' = retryCount + 1
                  /\ lastError'.kind # "none"
                  /\ pc' = IF retryCount' < 3 THEN "sleep" ELSE "done"
             ELSE /\ retryCount' = retryCount
                  /\ lastError' = lastError
                  /\ pc' = "done"
        ELSE retryCount' = retryCount /\ lastError' = lastError

C22_RetryStateMachine ==
    []C22_RetryStateInvariant /\ [][C22_RetryStateStep]_vars

\* Two attempts have failed and the third is in flight.
C22_Witness ==
    /\ variant = "undici"
    /\ pc = "awaiting"
    /\ netCalls = 3
    /\ retryCount = 2
    /\ lastError.kind = "application"
    /\ FailedAttempt(lastOutcome)


(***************************************************************************)
(* C23.  Provided every request settles and every backoff timer fires,     *)
(* every run reaches its end.  At its end it has either gone down the      *)
(* success path and set the output, or has no output and is failed, never  *)
(* both nor neither; it has made at most the maximum number of network     *)
(* calls and one backoff sleep fewer; and from its end it makes no further *)
(* call, sleep or step.                                                    *)
(***************************************************************************)
EndedInSuccess == successLogged /\ output.set
EndedInFailure == ~successLogged /\ ~output.set /\ failed

C23_AtTheEnd ==
    /\ netCalls <= MaxAttempts
    /\ Len(sleeps) <= MaxAttempts - 1
    /\ pc = "done" => (EndedInSuccess \/ EndedInFailure)
    /\ pc = "done" => ~(EndedInSuccess /\ EndedInFailure)
    /\ pc # "done" => ~EndedInSuccess

C23_NothingAfterTheEnd ==
    pc = "done" =>
        /\ pc' = "done"
        /\ netCalls' = netCalls
        /\ sleeps' = sleeps
        /\ events' = events
        /\ output' = output
        /\ failed' = failed

C23_EveryRunTerminates ==
    /\ <>(pc = "done")
    /\ []C23_AtTheEnd
    /\ [][C23_NothingAfterTheEnd]_vars

\* A run that used every attempt and every backoff has ended.
C23_Witness ==
    /\ pc = "done"
    /\ variant = "undici"
    /\ netCalls = 3
    /\ Len(sleeps) = 2
    /\ EndedInFailure


(***************************************************************************)
(* C24.  In the implementation without retries (maximum 1), a run makes    *)
(* at most one network call and never sleeps or announces a retry; a run   *)
(* that passed validation has, at its end, made exactly one call; and if   *)
(* that call failed in transit, was answered with a status of 400 or more  *)
(* or with the error flag set, the run ends failed without output.         *)
(***************************************************************************)
SingleAttemptFailed ==
    \/ lastOutcome.net = "transport"
    \/ /\ lastOutcome.net = "response"
       /\ \/ lastOutcome.status >= 400
          \/ lastOutcome.body.ok /\ lastOutcome.body.error

C24_SingleAttemptVariant ==
    variant = "axios" =>
        /\ netCalls <= 1
        /\ sleeps = <<>>
        /\ pc # "sleep"
        /\ \A i \in 1..Len(events) : events[i] = "call"
        /\ \A i \in 1..Len(warnings) : warnings[i] # "retry"
        /\ (pc = "done" /\ validationError = "<absent>") => netCalls = 1
        /\ (pc = "done" /\ SingleAttemptFailed) =>
              /\ failed
              /\ ~output.set
              /\ ~successLogged
              /\ retryCount <= 1

\* The one attempt was answered with status 400 and the run ended failed.
C24_Witness ==
    /\ variant = "axios"
    /\ pc = "done"
    /\ netCalls = 1
    /\ sleeps = <<>>
    /\ lastOutcome.net = "response"
    /\ lastOutcome.status = 400
    /\ failed
    /\ failureMsg = <<"DeployGate upload failed: ",
                      "Request failed with status code ", "400">>


(***************************************************************************)
(* C25.  The required inputs are checked first.  A credential that is not  *)
(* supplied is rejected by the input reader ('Input required and not       *)
(* supplied: api_token'); one that is only whitespace with 'API token is   *)
(* required and cannot be empty'.  With the credential accepted, an owner  *)
(* name that is not supplied is rejected by the input reader, and one that *)
(* holds nothing but whitespace and control characters with 'Owner name is *)
(* required and cannot be empty'.  In each case the run ends failed and no *)
(* file check, log of parameters, warning or network call follows.         *)
(***************************************************************************)
RejectedAtOnce(text) ==
    /\ pc = "done"
    /\ failed
    /\ failureMsg = <<text>>
    /\ netCalls = 0
    /\ ~output.set
    /\ warnings = <<>>
    /\ \A i \in 1..Len(log) : log[i].op \in {"setSecret", "error"}
    /\ log[Len(log)].op = "error"

OwnerStripsToNothing == SelectSeq(Trim(ownerNameIn), NotC0C1) = <<>>

C26_FailedExcludesOutput ==
    pc = "done" => ~(failed /\ output.set)

(***************************************************************************)
(* C27 (as claimed).  Every run that ends in success has set the results   *)
(* output to the serialization of a results record: never to the empty     *)
(* string, as a success response without a results member would give.      *)
(***************************************************************************)
C27_SuccessEmitsResultsRecord ==
    (pc = "done" /\ successLogged /\ output.set) =>
        /\ output.value # <<>>
        /\ JSONparse(output.value) \in ResultRecords

====
